---- MODULE Spec2Model ----
(***************************************************************************)
(* dnsly: a model of src/dnsly/core.py (validate_domain, dns_lookup) and   *)
(* of the lookup driver of src/dnsly/cli.py (main, perform_lookup).        *)
(*                                                                         *)
(* Python strings are sequences of one-character strings, so that the      *)
(* regular expression, str.upper, str.strip and str.split act on           *)
(* characters.  Texts that are only concatenated and compared (error       *)
(* messages, the text of an rdata) are sequences of string chunks.         *)
(*                                                                         *)
(* Outside the model: rendering (banner, tables, JSON), argparse, and      *)
(* asynchronous interrupts of the process.  The resolver library is the    *)
(* environment: its response to a query is a nondeterministic choice.      *)
(***************************************************************************)
EXTENDS Integers, Sequences, FiniteSets, TLC

\* ------------------------------------------------------------------ bounds

\* Longest enumerated domain string (all strings over EnumAlphabet).
MaxLen == 5
\* Most comma-separated tokens in a -t argument.
MaxTypes == 2
\* Most records in a resolver answer.
MaxAnswers == 2

\* --------------------------------------------------------------- characters

LowerSeq ==
  << "a", "b", "c", "d", "e", "f", "g", "h", "i", "j", "k", "l", "m",
     "n", "o", "p", "q", "r", "s", "t", "u", "v", "w", "x", "y", "z" >>

UpperSeq ==
  << "A", "B", "C", "D", "E", "F", "G", "H", "I", "J", "K", "L", "M",
     "N", "O", "P", "Q", "R", "S", "T", "U", "V", "W", "X", "Y", "Z" >>

DigitSeq == << "0", "1", "2", "3", "4", "5", "6", "7", "8", "9" >>

Range(f) == { f[i] : i \in DOMAIN f }

\* [a-zA-Z]
Alpha == Range(LowerSeq) \cup Range(UpperSeq)
\* [0-9]
Digit == Range(DigitSeq)
\* [a-zA-Z0-9]
AlNum == Alpha \cup Digit
\* [a-zA-Z0-9-]
AlNumHyphen == AlNum \cup { "-" }
\* the characters str.strip() removes
Whitespace == { " ", "\t", "\n", "\r" }

SubStr(s, i, j) == [ k \in 1..(j - i + 1) |-> s[i + k - 1] ]

Min(a, b) == IF a < b THEN a ELSE b

\* str.upper() on one character
UpperChar(c) ==
  IF \E i \in DOMAIN LowerSeq : LowerSeq[i] = c
  THEN UpperSeq[CHOOSE i \in DOMAIN LowerSeq : LowerSeq[i] = c]
  ELSE c

\* str.upper()
upper(s) == [ i \in 1..Len(s) |-> UpperChar(s[i]) ]

\* str.strip(): leading and trailing whitespace removed
strip(s) ==
  LET keep == { i \in 1..Len(s) : s[i] \notin Whitespace }
  IN  IF keep = {} THEN << >>
      ELSE LET lo == CHOOSE i \in keep : \A j \in keep : i <= j
               hi == CHOOSE i \in keep : \A j \in keep : j <= i
           IN  SubStr(s, lo, hi)

\* str.split(sep): the pieces between the occurrences of sep (always >= 1 piece)
RECURSIVE SplitFrom(_, _, _)
SplitFrom(s, sep, i) ==
  LET seps == { j \in i..Len(s) : s[j] = sep }
  IN  IF seps = {} THEN << SubStr(s, i, Len(s)) >>
      ELSE LET j == CHOOSE x \in seps : \A y \in seps : x <= y
           IN  << SubStr(s, i, j - 1) >> \o SplitFrom(s, sep, j + 1)

split(s, sep) == SplitFrom(s, sep, 1)

\* ---------------------------------------------------------- validate_domain

\* len(domain) > 253
MaxDomainLen == 253
\* {0,61} in the label group of the regular expression
MaxLabelMid == 61
\* {2,} of the final label of the regular expression
MinTldLen == 2

\* [a-zA-Z0-9](?:[a-zA-Z0-9-]{0,61}[a-zA-Z0-9])?  matches s[i..j]
LabelAt(s, i, j) ==
  /\ i <= j
  /\ j <= Len(s)
  /\ s[i] \in AlNum
  /\ \/ j = i
     \/ /\ j - i - 1 <= MaxLabelMid
        /\ \A k \in (i + 1)..(j - 1) : s[k] \in AlNumHyphen
        /\ s[j] \in AlNum

\* [a-zA-Z]{2,}  matches s[i..j]
TldAt(s, i, j) ==
  /\ j <= Len(s)
  /\ j - i + 1 >= MinTldLen
  /\ \A k \in i..j : s[k] \in Alpha

\* $ matches after position j: at the end of the string, or just before a
\* newline that is the last character of the string (Python's re without
\* re.MULTILINE)
DollarAt(s, j) ==
  \/ j = Len(s)
  \/ j = Len(s) - 1 /\ s[Len(s)] = "\n"

\* [a-zA-Z]{2,}$  from position i
TailFrom(s, i) == \E j \in i..Len(s) : TldAt(s, i, j) /\ DollarAt(s, j)

\* (?:label\.)+[a-zA-Z]{2,}$  from position i
RECURSIVE GroupsFrom(_, _)
GroupsFrom(s, i) ==
  \E j \in i..Min(Len(s) - 1, i + MaxLabelMid + 1) :
     /\ LabelAt(s, i, j)
     /\ s[j + 1] = "."
     /\ (TailFrom(s, j + 2) \/ GroupsFrom(s, j + 2))

\* domain_regex.match(domain): anchored at the start of the string
RegexMatch(s) == GroupsFrom(s, 1)

validate_domain(domain) ==
  IF domain = << >> \/ Len(domain) > MaxDomainLen
  THEN FALSE
  ELSE RegexMatch(domain)

\* ------------------------------------------- dns.reversename.from_address

\* int(part) for a string of decimal digits
DigitVal(c) == (CHOOSE i \in DOMAIN DigitSeq : DigitSeq[i] = c) - 1

RECURSIVE DecValue(_)
DecValue(part) ==
  IF part = << >> THEN 0
  ELSE 10 * DecValue(SubStr(part, 1, Len(part) - 1)) + DigitVal(part[Len(part)])

\* "%d" % n
RECURSIVE DecText(_)
DecText(n) ==
  IF n < 10 THEN << DigitSeq[n + 1] >>
  ELSE DecText(n \div 10) \o << DigitSeq[(n % 10) + 1] >>

\* the largest value of one byte of an address
MaxByte == 255
\* the number of dot-separated parts of an IPv4 literal
V4Parts == 4
\* the number of 16-bit groups of an IPv6 address, and the hex digits of one
V6Groups == 8
V6GroupLen == 4

\* dns.ipv4.inet_aton accepts text: four parts of decimal digits, no leading
\* zero, each at most 255
IsIPv4(text) ==
  LET parts == split(text, ".")
  IN  /\ Len(parts) = V4Parts
      /\ \A p \in 1..Len(parts) :
            /\ parts[p] # << >>
            /\ \A k \in 1..Len(parts[p]) : parts[p][k] \in Digit
            /\ ~(Len(parts[p]) > 1 /\ parts[p][1] = "0")
            /\ DecValue(parts[p]) <= MaxByte

\* the bytes of an IPv4 literal, as decimal texts
V4Bytes(text) ==
  LET parts == split(text, ".")
  IN  [ p \in 1..Len(parts) |-> DecText(DecValue(parts[p])) ]

HexLower == Digit \cup { "a", "b", "c", "d", "e", "f" }
HexDigit == HexLower \cup { "A", "B", "C", "D", "E", "F" }

\* binascii.hexlify prints lower-case digits
LowerChar(c) ==
  IF \E i \in DOMAIN UpperSeq : UpperSeq[i] = c
  THEN LowerSeq[CHOOSE i \in DOMAIN UpperSeq : UpperSeq[i] = c]
  ELSE c

StartsWith2Colons(t) == Len(t) >= 2 /\ t[1] = ":" /\ t[2] = ":"
EndsWith2Colons(t) == Len(t) >= 2 /\ t[Len(t)] = ":" /\ t[Len(t) - 1] = ":"

\* dns.ipv6.inet_aton, before the split: "::" becomes "0::", then one colon
\* of a leading (else of a trailing) "::" is dropped
V6Prep(text) ==
  LET t == IF text = << ":", ":" >> THEN << "0", ":", ":" >> ELSE text
  IN  IF StartsWith2Colons(t) THEN SubStr(t, 2, Len(t))
      ELSE IF EndsWith2Colons(t) THEN SubStr(t, 1, Len(t) - 1)
      ELSE t

V6Chunks(text) == split(V6Prep(text), ":")

\* dns.ipv6.inet_aton accepts text (the dotted-quad tail and the %scope forms
\* are not modelled: no input of the model has them)
IsIPv6(text) ==
  /\ text # << >>
  /\ ~(text[Len(text)] = ":" /\ ~EndsWith2Colons(text))
  /\ ~(text[1] = ":" /\ ~StartsWith2Colons(text))
  /\ LET chunks == V6Chunks(text)
         empty == { c \in 1..Len(chunks) : chunks[c] = << >> }
     IN  /\ Len(chunks) <= V6Groups
         /\ Cardinality(empty) <= 1
         /\ \A c \in 1..Len(chunks) :
               /\ Len(chunks[c]) <= V6GroupLen
               /\ \A k \in 1..Len(chunks[c]) : chunks[c][k] \in HexDigit
         /\ (Len(chunks) < V6Groups => empty # {})

Zeros(n) == [ k \in 1..n |-> "0" ]

\* the 32 hex digits of an IPv6 literal: every chunk padded to four digits,
\* the empty chunk expanded to the missing groups
RECURSIVE V6Canonical(_, _)
V6Canonical(chunks, l) ==
  IF chunks = << >> THEN << >>
  ELSE LET c == Head(chunks)
           here == IF c = << >> THEN Zeros(V6GroupLen * (V6Groups - l + 1))
                   ELSE Zeros(V6GroupLen - Len(c)) \o [ k \in 1..Len(c) |-> LowerChar(c[k]) ]
       IN  here \o V6Canonical(Tail(chunks), l)

V6Nibbles(text) ==
  LET digits == V6Canonical(V6Chunks(text), Len(V6Chunks(text)))
  IN  [ k \in 1..Len(digits) |-> << digits[k] >> ]

\* ".".join(reversed(parts)) followed by "." and the origin
RECURSIVE JoinReversed(_)
JoinReversed(parts) ==
  IF parts = << >> THEN << >>
  ELSE parts[Len(parts)] \o << "." >> \o JoinReversed(SubStr(parts, 1, Len(parts) - 1))

ipv4_reverse_domain == << "i", "n", "-", "a", "d", "d", "r", ".", "a", "r", "p", "a", "." >>
ipv6_reverse_domain == << "i", "p", "6", ".", "a", "r", "p", "a", "." >>

\* dns.reversename.from_address(text), then str(): the IPv6 parser is tried
\* first, then the IPv4 parser; ok = FALSE stands for the exception raised
\* when neither accepts the text
from_address(text) ==
  IF IsIPv6(text)
  THEN [ ok |-> TRUE, name |-> JoinReversed(V6Nibbles(text)) \o ipv6_reverse_domain ]
  ELSE IF IsIPv4(text)
  THEN [ ok |-> TRUE, name |-> JoinReversed(V4Bytes(text)) \o ipv4_reverse_domain ]
  ELSE [ ok |-> FALSE, name |-> << >> ]

\* ------------------------------------------------------------ record types

T_A == << "A" >>
T_AAAA == << "A", "A", "A", "A" >>
T_CNAME == << "C", "N", "A", "M", "E" >>
T_MX == << "M", "X" >>
T_NS == << "N", "S" >>
T_TXT == << "T", "X", "T" >>
T_SOA == << "S", "O", "A" >>
T_PTR == << "P", "T", "R" >>
T_ALL == << "A", "L", "L" >>

\* main: the list ALL expands to
all_types == << T_A, T_AAAA, T_CNAME, T_MX, T_NS, T_TXT, T_SOA >>

\* main: valid_types
valid_types == << T_A, T_AAAA, T_CNAME, T_MX, T_NS, T_TXT, T_SOA, T_PTR >>

\* main: the record types of the -t argument
ParseTypes(arg) ==
  IF upper(arg) = T_ALL
  THEN all_types
  ELSE LET parts == split(arg, ",")
       IN  [ i \in 1..Len(parts) |-> upper(strip(parts[i])) ]

\* A variant of HasInvalidType that looks at the first record type only.
HasInvalidType_FirstOnly(rts) == rts[1] \notin Range(valid_types)

\* main: the validation loop returns 1 at the first record type that is not
\* in valid_types
HasInvalidType(rts) == \E i \in 1..Len(rts) : rts[i] \notin Range(valid_types)

\* ------------------------------------------------------------ LookupResult

Failure(error, domain, record_type) ==
  [ success |-> FALSE, error |-> error, domain |-> domain,
    record_type |-> record_type ]

Success(domain, record_type, results) ==
  [ success |-> TRUE, domain |-> domain, record_type |-> record_type,
    records |-> results, count |-> Len(results) ]

ErrInvalidDomain == << "Invalid domain format" >>
ErrInvalidIP == << "Invalid IP address for PTR lookup" >>
ErrNXDOMAIN == << "Domain does not exist" >>
ErrNoAnswer(record_type) == << "No " >> \o record_type \o << " records found" >>
ErrTimeout == << "DNS query timed out" >>
ErrDNS(e) == << "DNS error: ", e.msg >>
ErrUnexpected(e) == << "Unexpected error: ", e.msg >>

\* ------------------------------------------------------------ the resolver

\* The exception classes the resolver raises, each with the classes it is an
\* instance of (its method resolution order up to Exception).
Ancestors(class) ==
  CASE class = "NXDOMAIN" -> { "NXDOMAIN", "DNSException", "Exception" }
    [] class = "NoAnswer" -> { "NoAnswer", "DNSException", "Exception" }
    [] class = "Timeout" -> { "Timeout", "DNSException", "Exception" }
    [] class = "LifetimeTimeout" ->
         { "LifetimeTimeout", "Timeout", "DNSException", "Exception" }
    [] class = "NoNameservers" -> { "NoNameservers", "DNSException", "Exception" }
    [] class = "OSError" -> { "OSError", "Exception" }

\* What the network gives back for one query.  "rrset" carries the records of
\* the queried type, possibly none.
ResponseKinds ==
  { "rrset", "nxdomain", "timeout", "lifetime", "servfail", "oserror" }

MailName1 == << "mail", "example", "com" >>
MailName2 == << "mx2", "example", "com" >>

\* The rdata of one record, by the queried type.
RdataOf(record_type) ==
  CASE upper(record_type) = T_MX ->
         { [ preference |-> 10, exchange |-> MailName1 ],
           [ preference |-> 20, exchange |-> MailName2 ] }
    [] upper(record_type) = T_SOA ->
         { [ mname |-> MailName1, rname |-> MailName2, serial |-> 1,
             refresh |-> 7200, retry |-> 3600, expire |-> 1209600,
             minimum |-> 300 ],
           [ mname |-> MailName2, rname |-> MailName1, serial |-> 2,
             refresh |-> 7200, retry |-> 3600, expire |-> 1209600,
             minimum |-> 60 ] }
    [] upper(record_type) = T_TXT ->
         { [ strings |-> << "v=spf1 -all" >> ],
           [ strings |-> << "part one", "part two" >> ] }
    [] OTHER ->
         { [ text |-> << "93.184.216.34" >> ],
           [ text |-> << "target.example.com." >> ] }

RrsetsOf(record_type) ==
  UNION { [ 1..n -> RdataOf(record_type) ] : n \in 0..MaxAnswers }

Responses(record_type) ==
  { [ kind |-> "rrset", rrset |-> rr ] : rr \in RrsetsOf(record_type) }
  \cup { [ kind |-> k, rrset |-> << >> ] : k \in ResponseKinds \ { "rrset" } }

NoResponse == [ kind |-> "none", rrset |-> << >> ]

Exc(class, msg) == [ class |-> class, msg |-> msg ]

\* the exception resolver.resolve raises for a response that is no answer
RaisedFor(kind) ==
  CASE kind = "noanswer" ->
         Exc("NoAnswer", "The DNS response does not contain an answer to the question")
    [] kind = "nxdomain" -> Exc("NXDOMAIN", "The DNS query name does not exist")
    [] kind = "timeout" -> Exc("Timeout", "The DNS operation timed out")
    [] kind = "lifetime" -> Exc("LifetimeTimeout", "The resolution lifetime expired")
    [] kind = "servfail" ->
         Exc("NoNameservers", "All nameservers failed to answer the query")
    [] kind = "oserror" -> Exc("OSError", "Network is unreachable")

\* A variant of resolve that returns an empty answer instead of raising
\* NoAnswer (raise_on_no_answer = False).
resolve_NoRaise(response) ==
  IF response.kind = "rrset"
  THEN [ raised |-> << >>, answers |-> response.rrset ]
  ELSE [ raised |-> << RaisedFor(response.kind) >>, answers |-> << >> ]

\* resolver.resolve(domain, record_type) with its defaults
\* (raise_on_no_answer = True): the answer, or the exception raised.  An
\* answer without records of the queried type raises NoAnswer.
resolve(response) ==
  IF response.kind = "rrset" /\ response.rrset # << >>
  THEN [ raised |-> << >>, answers |-> response.rrset ]
  ELSE IF response.kind = "rrset"
  THEN [ raised |-> << RaisedFor("noanswer") >>, answers |-> << >> ]
  ELSE [ raised |-> << RaisedFor(response.kind) >>, answers |-> << >> ]

\* ------------------------------------------------------- record processing

\* str(name): the labels joined by dots, with the root's trailing dot
RECURSIVE NameText(_)
NameText(labels) ==
  IF labels = << >> THEN << >>
  ELSE << Head(labels), "." >> \o NameText(Tail(labels))

Quote == "\""

\* str(rdata) of a TXT rdata: every string in quotes, joined by spaces
RECURSIVE TxtText(_)
TxtText(strings) ==
  IF strings = << >> THEN << >>
  ELSE << Quote, Head(strings), Quote >>
       \o (IF Len(strings) > 1 THEN << " " >> ELSE << >>)
       \o TxtText(Tail(strings))

\* text.strip('"'): the quote characters at both ends removed
StripQuotes(text) ==
  LET keep == { i \in 1..Len(text) : text[i] # Quote }
  IN  IF keep = {} THEN << >>
      ELSE LET lo == CHOOSE i \in keep : \A j \in keep : i <= j
               hi == CHOOSE i \in keep : \A j \in keep : j <= i
           IN  SubStr(text, lo, hi)

\* the body of the loop over the answers: the entry appended for one rdata
NormalizeRdata(rdata, record_type) ==
  IF upper(record_type) = T_MX
  THEN [ preference |-> rdata.preference, exchange |-> NameText(rdata.exchange) ]
  ELSE IF upper(record_type) = T_TXT
  THEN StripQuotes(TxtText(rdata.strings))
  ELSE IF upper(record_type) = T_SOA
  THEN [ mname |-> NameText(rdata.mname), rname |-> NameText(rdata.rname),
         serial |-> rdata.serial, refresh |-> rdata.refresh,
         retry |-> rdata.retry, expire |-> rdata.expire,
         minimum |-> rdata.minimum ]
  ELSE rdata.text

\* A variant of ProcessAnswers that drops a record it has already produced.
RECURSIVE ProcessAnswers_Dedup(_, _)
ProcessAnswers_Dedup(answers, record_type) ==
  IF answers = << >> THEN << >>
  ELSE LET rest == ProcessAnswers_Dedup(Tail(answers), record_type)
           r == NormalizeRdata(Head(answers), record_type)
       IN  IF \E i \in 1..Len(rest) : rest[i] = r THEN rest ELSE << r >> \o rest

\* for rdata in answers: results.append(...)
RECURSIVE ProcessAnswers(_, _)
ProcessAnswers(answers, record_type) ==
  IF answers = << >> THEN << >>
  ELSE << NormalizeRdata(Head(answers), record_type) >>
       \o ProcessAnswers(Tail(answers), record_type)

\* A variant of Handlers with the generic DNSException clause first.
Handlers_GenericFirst ==
  << "DNSException", "NXDOMAIN", "NoAnswer", "Timeout", "Exception" >>

\* the except clauses of dns_lookup, in source order
Handlers == << "NXDOMAIN", "NoAnswer", "Timeout", "DNSException", "Exception" >>

\* the index of the first except clause that catches e, 0 when none does
HandlerFor(e) ==
  LET hit == { h \in 1..Len(Handlers) : Handlers[h] \in Ancestors(e.class) }
  IN  IF hit = {} THEN 0 ELSE CHOOSE h \in hit : \A g \in hit : h <= g

\* the Failure built by the except clause that catches e
HandleException(e, domain, record_type) ==
  LET h == Handlers[HandlerFor(e)]
  IN  CASE h = "NXDOMAIN" -> Failure(ErrNXDOMAIN, domain, record_type)
        [] h = "NoAnswer" -> Failure(ErrNoAnswer(record_type), domain, record_type)
        [] h = "Timeout" -> Failure(ErrTimeout, domain, record_type)
        [] h = "DNSException" -> Failure(ErrDNS(e), domain, record_type)
        [] h = "Exception" -> Failure(ErrUnexpected(e), domain, record_type)

\* ------------------------------------------------------------------ inputs

Rep(c, n) == [ k \in 1..n |-> c ]

EnumAlphabet == { "a", "1", "-", ".", "\n" }

\* every string over EnumAlphabet of at most MaxLen characters
EnumDomains == UNION { [ 1..n -> EnumAlphabet ] : n \in 0..MaxLen }

D_example == << "e", "x", "a", "m", "p", "l", "e", ".", "c", "o", "m" >>
D_newline == << "a", ".", "b", "c", "\n" >>
D_ipv4 == << "8", ".", "8", ".", "8", ".", "8" >>
D_ipv6_loopback == << ":", ":", "1" >>
D_ipv6 == << "2", "0", "0", "1", ":", "D", "B", "8", ":", ":", "1" >>
D_not_an_ip == << "n", "o", "t", "-", "a", "n", "-", "i", "p" >>
D_mixed == << "W", "w", "w", ".", "x", "-", "1", ".", "I", "o" >>
D_label63 == Rep("a", MaxLabelMid + 2) \o << ".", "c", "o", "m" >>
D_label64 == Rep("a", MaxLabelMid + 3) \o << ".", "c", "o", "m" >>
Label61Dot == Rep("b", MaxLabelMid) \o << "." >>
D_len253 == Label61Dot \o Label61Dot \o Label61Dot \o Label61Dot
            \o Rep("c", MaxDomainLen - 4 * (MaxLabelMid + 1))
D_len254 == D_len253 \o << "c" >>

SampleDomains ==
  { D_example, D_newline, D_ipv4, D_ipv6_loopback, D_ipv6, D_not_an_ip,
    D_mixed, D_label63, D_label64, D_len253, D_len254 }

\* the domains dns_lookup is called with directly
ApiDomains == EnumDomains \cup SampleDomains

\* the record types dns_lookup is called with directly
ApiTypes == Range(valid_types) \cup { << "p", "t", "r" >>, << "m", "x" >>, << "t", "x", "t" >> }

\* the domain arguments of the command line
CliDomains == { D_example, D_newline, D_ipv4, << >> }

\* the comma-separated tokens of the -t argument
Tokens ==
  { << "A" >>, << "m", "x" >>, << " ", "T", "X", "T", " " >>, T_SOA, T_PTR,
    << "a", "l", "l" >>, << "F", "O", "O" >>, << >> }

RECURSIVE JoinComma(_)
JoinComma(ts) ==
  IF Len(ts) = 1 THEN ts[1]
  ELSE ts[1] \o << "," >> \o JoinComma(Tail(ts))

\* the -t arguments of the command line
TypeArgs ==
  { JoinComma(ts) : ts \in UNION { [ 1..n -> Tokens ] : n \in 1..MaxTypes } }

\* ------------------------------------------------------------------- state

VARIABLES
  pc,            \* where control is: main, loop, lookup, ptr, query, return, done
  caller,        \* who called dns_lookup: "cli" (perform_lookup) or "api"
  argv,          \* the arguments: [domain, record_type]
  record_types,  \* main: the parsed list of record types
  idx,           \* perform_lookup: position of the for loop in record_types
  exit_code,     \* perform_lookup: exit_code
  ret,           \* main: << >> until it returns, then << its return value >>
  arg_domain,    \* dns_lookup: the domain it was called with
  domain,        \* dns_lookup: domain (reassigned for PTR)
  record_type,   \* dns_lookup: record_type
  response,      \* what the network gave back to this call's query
  raised,        \* << >>, or << the exception raised inside the try block >>
  result,        \* the dictionary dns_lookup returns
  uncaught,      \* an exception left dns_lookup
  queries,       \* every resolver query issued: [call, name, rdtype]
  ncalls,        \* the number of dns_lookup calls made
  lookups        \* perform_lookup: [record_type, success] of every returned call

vars ==
  << pc, caller, argv, record_types, idx, exit_code, ret, arg_domain, domain,
     record_type, response, raised, result, uncaught, queries, ncalls, lookups >>

NoResult == [ none |-> TRUE ]

cliVars == << record_types, idx, exit_code, ret, lookups >>
frameVars == << arg_domain, domain, record_type >>

InitCommon ==
  /\ record_types = << >>
  /\ idx = 1
  /\ exit_code = 0
  /\ ret = << >>
  /\ response = NoResponse
  /\ raised = << >>
  /\ result = NoResult
  /\ uncaught = FALSE
  /\ queries = << >>
  /\ lookups = << >>

\* the command line: main is entered with args.domain and args.record_type
InitMain ==
  /\ pc = "main"
  /\ caller = "cli"
  /\ argv \in [ domain : CliDomains, record_type : TypeArgs ]
  /\ arg_domain = << >>
  /\ domain = << >>
  /\ record_type = << >>
  /\ ncalls = 0
  /\ InitCommon

\* the library: dns_lookup(domain, record_type) is called directly
InitApi ==
  /\ pc = "lookup"
  /\ caller = "api"
  /\ argv \in [ domain : ApiDomains, record_type : ApiTypes ]
  /\ arg_domain = argv.domain
  /\ domain = argv.domain
  /\ record_type = argv.record_type
  /\ ncalls = 1
  /\ InitCommon

Init == InitMain \/ InitApi

\* -------------------------------------------------------------------- main

\* main: parse the record types, validate them all, then enter perform_lookup
MainParse ==
  /\ pc = "main"
  /\ record_types' = ParseTypes(argv.record_type)
  /\ IF HasInvalidType(ParseTypes(argv.record_type))
     THEN /\ ret' = << 1 >>
          /\ pc' = "done"
          /\ UNCHANGED exit_code
     ELSE /\ exit_code' = 0
          /\ pc' = "loop"
          /\ UNCHANGED ret
  /\ UNCHANGED << caller, argv, idx, frameVars, response, raised, result,
                  uncaught, queries, ncalls, lookups >>

\* A variant of LoopDone that leaves the loop at the first failed lookup.
LoopDone_StopOnFailure(i, rts, code) == i > Len(rts) \/ code = 1

\* perform_lookup: the for loop is exhausted
LoopDone(i, rts, code) == i > Len(rts)

\* A variant of ExitCodeAfter in which the last result alone decides.
ExitCodeAfter_LastWins(code, res) == IF ~res.success THEN 1 ELSE 0

\* perform_lookup: exit_code after one result
ExitCodeAfter(code, res) == IF ~res.success THEN 1 ELSE code

\* perform_lookup: the next iteration calls dns_lookup(domain, record_type)
PerformLookupCall ==
  /\ pc = "loop"
  /\ ~LoopDone(idx, record_types, exit_code)
  /\ pc' = "lookup"
  /\ arg_domain' = argv.domain
  /\ domain' = argv.domain
  /\ record_type' = record_types[idx]
  /\ ncalls' = ncalls + 1
  /\ response' = NoResponse
  /\ raised' = << >>
  /\ result' = NoResult
  /\ UNCHANGED << caller, argv, cliVars, uncaught, queries >>

\* perform_lookup: the result is rendered, exit_code is set if it failed
PerformLookupResume ==
  /\ pc = "return"
  /\ caller = "cli"
  /\ lookups' = Append(lookups, [ record_type |-> result.record_type,
                                  success |-> result.success ])
  /\ exit_code' = ExitCodeAfter(exit_code, result)
  /\ idx' = idx + 1
  /\ pc' = "loop"
  /\ UNCHANGED << caller, argv, record_types, ret, frameVars, response, raised,
                  result, uncaught, queries, ncalls >>

\* perform_lookup returns exit_code, and main returns it
PerformLookupReturn ==
  /\ pc = "loop"
  /\ LoopDone(idx, record_types, exit_code)
  /\ ret' = << exit_code >>
  /\ pc' = "done"
  /\ UNCHANGED << caller, argv, record_types, idx, exit_code, frameVars,
                  response, raised, result, uncaught, queries, ncalls, lookups >>

\* -------------------------------------------------------------- dns_lookup

\* A variant of LookupValidate that rejects the empty domain only.
LookupValidate_EmptyOnly ==
  /\ pc = "lookup"
  /\ IF domain = << >>
     THEN /\ result' = Failure(ErrInvalidDomain, domain, record_type)
          /\ pc' = "return"
     ELSE /\ pc' = "ptr"
          /\ UNCHANGED result
  /\ UNCHANGED << caller, argv, cliVars, frameVars, response, raised, uncaught,
                  queries, ncalls >>

\* dns_lookup: the domain is validated first, for every record type
LookupValidate ==
  /\ pc = "lookup"
  /\ IF ~validate_domain(domain)
     THEN /\ result' = Failure(ErrInvalidDomain, domain, record_type)
          /\ pc' = "return"
     ELSE /\ pc' = "ptr"
          /\ UNCHANGED result
  /\ UNCHANGED << caller, argv, cliVars, frameVars, response, raised, uncaught,
                  queries, ncalls >>

\* dns_lookup: for PTR the domain is replaced by its reverse name
LookupReverse ==
  /\ pc = "ptr"
  /\ IF upper(record_type) = T_PTR
     THEN IF from_address(domain).ok
          THEN /\ domain' = from_address(domain).name
               /\ pc' = "query"
               /\ UNCHANGED result
          ELSE /\ result' = Failure(ErrInvalidIP, domain, record_type)
               /\ pc' = "return"
               /\ UNCHANGED domain
     ELSE /\ pc' = "query"
          /\ UNCHANGED << domain, result >>
  /\ UNCHANGED << caller, argv, cliVars, arg_domain, record_type, response,
                  raised, uncaught, queries, ncalls >>

\* dns_lookup: the try block.  One query is sent; its answers are processed
\* into a Success, or the exception raised is turned into a Failure by the
\* first except clause that catches it.
LookupQuery ==
  /\ pc = "query"
  /\ \E resp \in Responses(record_type) :
       LET out == resolve(resp)
       IN  /\ response' = resp
           /\ raised' = out.raised
           /\ queries' = Append(queries, [ call |-> ncalls, name |-> domain,
                                           rdtype |-> record_type ])
           /\ IF out.raised = << >>
              THEN /\ result' = Success(domain, record_type,
                                        ProcessAnswers(out.answers, record_type))
                   /\ pc' = "return"
                   /\ UNCHANGED << uncaught, ret >>
              ELSE IF HandlerFor(out.raised[1]) # 0
              THEN /\ result' = HandleException(out.raised[1], domain, record_type)
                   /\ pc' = "return"
                   /\ UNCHANGED << uncaught, ret >>
              ELSE \* no clause catches it: it leaves dns_lookup; under main,
                   \* main's own except clause returns 1
                   /\ uncaught' = TRUE
                   /\ pc' = "done"
                   /\ ret' = IF caller = "cli" THEN << 1 >> ELSE ret
                   /\ UNCHANGED result
  /\ UNCHANGED << caller, argv, record_types, idx, exit_code, lookups,
                  frameVars, ncalls >>

\* the direct caller of dns_lookup receives the result
ApiReturn ==
  /\ pc = "return"
  /\ caller = "api"
  /\ pc' = "done"
  /\ UNCHANGED << caller, argv, cliVars, frameVars, response, raised, result,
                  uncaught, queries, ncalls >>

Next ==
  \/ MainParse
  \/ PerformLookupCall
  \/ PerformLookupResume
  \/ PerformLookupReturn
  \/ LookupValidate
  \/ LookupReverse
  \/ LookupQuery
  \/ ApiReturn

Spec == Init /\ [][Next]_vars

\* ------------------------------------------------------------------ claims

\* dns_lookup has been called and has run its validation step
AfterValidate == ncalls > 0 /\ pc # "lookup"

\* the current (or last) dns_lookup call has produced its return value
HasResult == "success" \in DOMAIN result

IsFailure(res) == DOMAIN res = { "success", "error", "domain", "record_type" } /\ ~res.success

IsSuccess(res) ==
  DOMAIN res = { "success", "domain", "record_type", "records", "count" } /\ res.success

\* the resolver queries issued by dns_lookup call number c
QueriesOf(c) == { i \in 1..Len(queries) : queries[i].call = c }

\* every parsed record type is one of the eight supported ones
AllTypesValid ==
  \A i \in 1..Len(record_types) :
     record_types[i] \in { T_A, T_AAAA, T_CNAME, T_MX, T_NS, T_TXT, T_SOA, T_PTR }

\* The grammar of valid domains as the specification words it: at most 253
\* characters; one or more labels of 1-63 letters, digits or hyphens, not
\* starting or ending with a hyphen, each followed by a dot; then a final
\* label of at least two letters, and nothing after it.
ClaimedValid(s) ==
  /\ Len(s) <= 253
  /\ LET parts == split(s, ".")
     IN  /\ Len(parts) >= 2
         /\ \A p \in 1..(Len(parts) - 1) :
               /\ Len(parts[p]) \in 1..63
               /\ \A k \in 1..Len(parts[p]) : parts[p][k] \in AlNumHyphen
               /\ parts[p][1] # "-"
               /\ parts[p][Len(parts[p])] # "-"
         /\ Len(parts[Len(parts)]) >= 2
         /\ \A k \in 1..Len(parts[Len(parts)]) : parts[Len(parts)][k] \in Alpha

\* C1: for a parseable IPv4 or IPv6 literal, dns_lookup(input, "PTR") skips
\* the validator, converts the address to its reverse name and queries the
\* resolver for that name; it does not fail before the resolver is queried.
C1_PtrQueriesReverseName ==
  (HasResult /\ record_type = T_PTR /\ from_address(arg_domain).ok) =>
     \E i \in QueriesOf(ncalls) :
        /\ queries[i].name = from_address(arg_domain).name
        /\ queries[i].rdtype = T_PTR

\* C2: for an input that is not a parseable IP address, dns_lookup(input,
\* "PTR") returns the Failure "Invalid IP address for PTR lookup" and makes
\* no resolver query.
C2_PtrBadAddressMessage ==
  (HasResult /\ record_type = T_PTR /\ ~from_address(arg_domain).ok) =>
     /\ IsFailure(result)
     /\ result.error = << "Invalid IP address for PTR lookup" >>
     /\ QueriesOf(ncalls) = {}

\* C3: for a record type other than PTR and a domain validate_domain rejects
\* (the empty string included), dns_lookup returns the Failure "Invalid
\* domain format" with the unmodified domain and record type, and the
\* resolver is never queried during the call.
C3_InvalidDomainNoQuery ==
  (AfterValidate /\ upper(record_type) # T_PTR /\ ~validate_domain(arg_domain)) =>
     /\ HasResult
     /\ IsFailure(result)
     /\ result.error = << "Invalid domain format" >>
     /\ result.domain = arg_domain
     /\ result.record_type = record_type
     /\ QueriesOf(ncalls) = {}

\* C3 witness: the empty domain was rejected for a type other than PTR
C3_Witness ==
  /\ HasResult
  /\ upper(record_type) # T_PTR
  /\ arg_domain = << >>
  /\ ~result.success
  /\ result.error = ErrInvalidDomain

\* C4: every result is exactly a Success or a Failure; a Success has at least
\* one record; a response with zero answers gives the Failure
\* "No {record_type} records found".
C4_SuccessHasRecords ==
  HasResult =>
     /\ (IsSuccess(result) \/ IsFailure(result))
     /\ (result.success => result.count >= 1 /\ Len(result.records) >= 1)
     /\ (response.kind = "rrset" /\ response.rrset = << >> =>
           /\ IsFailure(result)
           /\ result.error = << "No " >> \o record_type \o << " records found" >>)

\* C4 witness: the resolver's response held no answer and the call returned
C4_Witness ==
  /\ HasResult
  /\ response.kind = "rrset"
  /\ response.rrset = << >>
  /\ ~result.success

\* C5: every condition the resolver signals becomes a Failure, never an
\* exception leaving dns_lookup, with one message per condition: NXDOMAIN,
\* no answer, timeout, other protocol error, other failure; the specific
\* conditions never get the generic messages.
C5_ErrorMapping ==
  /\ ~uncaught
  /\ raised # << >> =>
       /\ HasResult
       /\ IsFailure(result)
       /\ result.domain = domain
       /\ result.record_type = record_type
       /\ result.error =
            CASE response.kind = "nxdomain" -> << "Domain does not exist" >>
              [] response.kind = "rrset" ->
                   << "No " >> \o record_type \o << " records found" >>
              [] response.kind \in { "timeout", "lifetime" } -> << "DNS query timed out" >>
              [] response.kind = "servfail" -> << "DNS error: ", raised[1].msg >>
              [] response.kind = "oserror" -> << "Unexpected error: ", raised[1].msg >>

\* C5 witness: a lifetime timeout (a subclass of Timeout, itself a
\* DNSException) was reported as a timeout
C5_Witness ==
  /\ HasResult
  /\ raised # << >>
  /\ response.kind = "lifetime"
  /\ ~result.success
  /\ result.error = ErrTimeout

\* C6: with valid record types, the exit code is 0 exactly when every
\* requested lookup returned Success; it is 1 from the first Failure on,
\* whatever the later lookups return.
C6_ExitCode ==
  (caller = "cli" /\ pc # "main" /\ AllTypesValid) =>
     /\ (\E i \in 1..Len(lookups) : ~lookups[i].success) => exit_code = 1
     /\ ret # << >> =>
          (ret[1] = 0 <=>
             /\ Len(lookups) = Len(record_types)
             /\ \A i \in 1..Len(lookups) : lookups[i].success)
     /\ ret # << >> => ret[1] \in { 0, 1 }

\* C6 witness: main returned 1 after a failed lookup followed by a
\* successful one
C6_Witness ==
  /\ caller = "cli"
  /\ ret = << 1 >>
  /\ Len(lookups) >= 2
  /\ ~lookups[1].success
  /\ lookups[Len(lookups)].success

\* C7: validate_domain returns true exactly for the strings of the grammar
\* (ClaimedValid), and false for every other string, a string with a
\* trailing newline included.
C7_ValidateIsGrammar ==
  AfterValidate => (validate_domain(arg_domain) <=> ClaimedValid(arg_domain))

\* the per-type shape of one normalized record
RecordMatches(rec, rdata, rt) ==
  CASE upper(rt) = T_MX ->
         /\ DOMAIN rec = { "preference", "exchange" }
         /\ rec.preference = rdata.preference
         /\ rec.exchange = NameText(rdata.exchange)
    [] upper(rt) = T_SOA ->
         /\ DOMAIN rec = { "mname", "rname", "serial", "refresh", "retry",
                           "expire", "minimum" }
         /\ rec.mname = NameText(rdata.mname)
         /\ rec.rname = NameText(rdata.rname)
         /\ rec.serial = rdata.serial
         /\ rec.refresh = rdata.refresh
         /\ rec.retry = rdata.retry
         /\ rec.expire = rdata.expire
         /\ rec.minimum = rdata.minimum
    [] upper(rt) = T_TXT ->
         /\ rec = << >> \/ (rec[1] # Quote /\ rec[Len(rec)] # Quote)
         /\ \E lo, hi \in 0..Len(TxtText(rdata.strings)) :
               TxtText(rdata.strings) = Rep(Quote, lo) \o rec \o Rep(Quote, hi)
    [] OTHER -> rec = rdata.text

\* C8: when the resolver answers with N >= 1 records, the result is a
\* Success with exactly N entries, the i-th the normalization of the i-th
\* answer, in resolver order, nothing dropped, and count = N.
C8_RecordsInOrder ==
  (HasResult /\ response.kind = "rrset" /\ Len(response.rrset) >= 1) =>
     /\ IsSuccess(result)
     /\ result.count = Len(response.rrset)
     /\ Len(result.records) = Len(response.rrset)
     /\ \A i \in 1..Len(response.rrset) :
           RecordMatches(result.records[i], response.rrset[i], record_type)

\* C8 witness: a Success for an answer that holds the same record twice
C8_Witness ==
  /\ HasResult
  /\ response.kind = "rrset"
  /\ Len(response.rrset) >= 2
  /\ response.rrset[1] = response.rrset[2]
  /\ result.success
  /\ result.count = Len(response.rrset)

\* C9: for k valid record types perform_lookup calls dns_lookup exactly k
\* times, once per type, one after another in list order, going on after a
\* failed lookup; ALL stands for the seven types without PTR; each call
\* issues at most one resolver query.
C9_OneCallPerType ==
  (caller = "cli" /\ pc # "main" /\ AllTypesValid) =>
     /\ Len(lookups) <= Len(record_types)
     /\ \A i \in 1..Len(lookups) : lookups[i].record_type = record_types[i]
     /\ ncalls \in { Len(lookups), Len(lookups) + 1 }
     /\ (pc \in { "loop", "done" } => ncalls = Len(lookups))
     /\ (ret # << >> => ncalls = Len(record_types))
     /\ AfterValidate /\ pc # "loop" /\ pc # "done" => record_type = record_types[ncalls]
     /\ \A c \in 1..ncalls : Cardinality(QueriesOf(c)) <= 1
     /\ Len(queries) <= ncalls
     /\ (upper(argv.record_type) = << "A", "L", "L" >> =>
           record_types = << T_A, T_AAAA, T_CNAME, T_MX, T_NS, T_TXT, T_SOA >>)
     /\ (upper(argv.record_type) # << "A", "L", "L" >> =>
           Len(record_types) = Len(split(argv.record_type, ",")))

\* C9 witness: main returned after at least two lookups, the first of which
\* failed
C9_Witness ==
  /\ caller = "cli"
  /\ ret # << >>
  /\ Len(lookups) >= 2
  /\ Len(lookups) = Len(record_types)
  /\ ~lookups[1].success

\* C10: if any element of the record-type list is not a supported type, main
\* returns 1 before any lookup: no dns_lookup call and no resolver query is
\* made, not even for the valid types before the invalid one.
C10_InvalidTypeNoLookup ==
  (caller = "cli" /\ pc # "main" /\ ~AllTypesValid) =>
     /\ pc = "done"
     /\ ret = << 1 >>
     /\ ncalls = 0
     /\ queries = << >>
     /\ lookups = << >>

\* C10 witness: main returned for a list whose first type is valid and whose
\* second is not
C10_Witness ==
  /\ caller = "cli"
  /\ pc = "done"
  /\ Len(record_types) >= 2
  /\ record_types[1] \in Range(valid_types)
  /\ record_types[2] \notin Range(valid_types)

====
